---- MODULE Spec2Model ----
(***************************************************************************)
(* A model of the midi-proxy SysEx protocol engine.                        *)
(*                                                                         *)
(*   device/device.py : Device  - the delivery callback on_midi_message,   *)
(*                                its handlers, shutdown                   *)
(*   client/client.py : Client  - connect_to_device (the handshake) and    *)
(*                                the transport calls it makes             *)
(*                              - the inbox _received_messages with its    *)
(*                                callback, pop_received_message and       *)
(*                                clear_received_messages                  *)
(*                                                                         *)
(* A MIDI message is a sequence of bytes (0..255).  Python indexes from 0, *)
(* TLA+ from 1: message_bytes[k] of the source is m[k+1] here.             *)
(* The device and the client are two programs; Spec is the device's        *)
(* behaviour, ClientSpec the client's handshake, InboxSpec the client's    *)
(* inbox with its two threads, InboxLive the same with the caller's thread *)
(* scheduled fairly, LinkSpec a connected client sending to the device and *)
(* reading its inbox, RunSpec the device's run loop with shutdown and a    *)
(* callback in progress (and the client's shutdown), RunLive the same with *)
(* the run loop's thread scheduled fairly.                                 *)
(***************************************************************************)
EXTENDS Integers, Sequences, FiniteSets

VARIABLES
    \* ---- Device (device/device.py)
    dev_running,    \* FALSE once shutdown_flag = True
    dev_in_open,    \* midi_in.is_port_open()
    dev_out_open,   \* midi_out.is_port_open()
    sent,           \* every message handed to midi_out.send_message, in order
    log,            \* the records of device_actions.log, in order
    last,           \* the latest delivery to on_midi_message and what it found
    n_delivered,    \* deliveries so far
    \* ---- Client (client/client.py)
    cli_alive,      \* FALSE before construction and after shutdown()
    out_ports,      \* the transport's enumeration midi_out.get_ports()
    in_ports,       \* the transport's enumeration midi_in.get_ports()
    out_ep,         \* where midi_out is open: Closed, Virtual or Bound(i)
    in_ep,          \* where midi_in is open
    callback_set,   \* a callback is registered on midi_in
    target_in,      \* target_device_in_port_name
    target_out,     \* target_device_out_port_name
    last_op,        \* the latest client operation
    calls,          \* the transport calls of the latest client operation
    faults,         \* the RtMidiErrors the latest client operation caught
    ret,            \* what the latest client operation returned
    \* ---- Client inbox (client/client.py: _received_messages and its users)
    inbox,          \* the list self._received_messages names now
    arrived,        \* every message the transport handed to _on_midi_message
    p_pc,           \* the callback thread: "idle", or "loaded" between reading
                    \* self._received_messages and calling append on it
    p_stale,        \* the list the callback read has since been replaced
    c_pc,           \* the caller inside pop_received_message: "idle" (not in
                    \* it), "test" (while), "check" (if), "take" (pop(0)), "sleep"
    timeout_sec,    \* the running pop's timeout, in half polling intervals
                    \* (0 while no pop runs)
    elapsed,        \* time.time() - start_time of the running pop, same unit
    pop_ret,        \* what the latest pop_received_message returned
    box_op,         \* the latest inbox operation the caller invoked
    gone,           \* the messages that left the inbox, in order, and how
    mark,           \* how many appends had completed at the latest clear
    seen_frame,     \* the running or latest pop had a message to return
    \* ---- Client send operations and the transport between the programs
    cli_sent,       \* every message the client's midi_out.send_message took
    op_args,        \* the arguments of the latest client send operation
    wire_in,        \* messages on their way to the device's input port
    wire_out,       \* messages on their way from the device's output port
    \* ---- Device.run, shutdown and a callback in progress (device/device.py)
    run_pc,         \* Device.run: "loop" (at the while test), "sleep",
                    \* "finally" (about to call shutdown), "done" (returned)
    interrupted,    \* KeyboardInterrupt was raised in run
    dev_has_ports,  \* the device still has its midi_in and midi_out attributes
    h_pc,           \* the transport's thread: "idle", or "handling" inside
                    \* on_midi_message before the handler touches midi_out
    h_msg,          \* the message that callback was called with
    dev_err,        \* the exception that left the latest callback, or "none"
    closes,         \* how often close_port was called on each port object
    n_calls         \* how often shutdown was called on each program

dev_vars == <<dev_running, dev_in_open, dev_out_open, sent, log, last, n_delivered>>
cli_vars == <<cli_alive, out_ports, in_ports, out_ep, in_ep, callback_set,
              target_in, target_out, last_op, calls, faults, ret>>
box_vars == <<inbox, arrived, p_pc, p_stale, c_pc, timeout_sec, elapsed, pop_ret,
              box_op, gone, mark, seen_frame>>
link_vars == <<cli_sent, op_args, wire_in, wire_out>>
run_vars == <<run_pc, interrupted, dev_has_ports, h_pc, h_msg, dev_err, closes, n_calls>>
vars == <<dev_vars, cli_vars, box_vars, link_vars, run_vars>>

\* ------------------------------------------------------------------ bounds
\* Deliveries to the device callback in one behaviour.
MaxDeliveries == 2
\* Ports the transport enumerates for the client's output and for its input.
MaxOutPorts == 3
MaxInPorts == 2

\* ------------------------------------------------------- device constants
SYSEX_START == 240
SYSEX_END == 247
UNIVERSAL_NON_REALTIME_SYSEX == 126
GENERAL_INFORMATION == 6
IDENTITY_REQUEST == 1
IDENTITY_REPLY == 2
MANUFACTURER_ID == 125
DEVICE_ID_SYSEX_all_call == 126 + 1
DEVICE_ID_SYSEX == 1
COMMAND_TRIGGER_ACTION == 3
ACTION_ID_LOG == 1
\* The device id the reply carries (0x7F, "all call").
ALL_CALL == 127

\* ------------------------------------------------------------ device model
\* status_byte & 0xF0
HighNibble(b) == (b \div 16) * 16

\* The last element, message_bytes[-1].
Last(m) == m[Len(m)]

\* The reply of _handle_identity_request, with the manufacturer id left out.
IdentityReplyFrame_short ==
    <<SYSEX_START, UNIVERSAL_NON_REALTIME_SYSEX, ALL_CALL, GENERAL_INFORMATION,
      IDENTITY_REPLY, 1, 1, 1, 1, 1, 1, 1, 1, SYSEX_END>>

\* reply_message of _handle_identity_request.
IdentityReplyFrame ==
    <<SYSEX_START, UNIVERSAL_NON_REALTIME_SYSEX, ALL_CALL, GENERAL_INFORMATION,
      IDENTITY_REPLY, MANUFACTURER_ID, 1, 1, 1, 1, 1, 1, 1, 1, SYSEX_END>>

\* log_content of _handle_trigger_action: the f-string's literal parts and the
\* two values it formats, in order, ending with the newline.
LogRecord(action_id, original_message) ==
    <<"TriggerAction: ID=", action_id, ", FullMsg=", original_message, "\n">>

\* A record left in the log file by an earlier run, when os.remove failed.
StaleRecord == <<"stale">>

\* The part of the device a handler reads and writes: d.out_open, d.sent,
\* d.log, d.raised (an exception left the callback), and d.events, what the
\* callback did so far, in order: "log" for a record written, "send" for a
\* message handed to midi_out.send_message.

\* send_midi_message.
send_midi_message(d, message) ==
    IF d.out_open
    THEN [d EXCEPT !.sent = Append(@, message), !.events = Append(@, "send")]
    ELSE d

\* with open(LOG_FILE_NAME, "a") as f: f.write(log_content), when it raises
\* no IOError.
write_log(d, log_content) ==
    [d EXCEPT !.log = Append(@, log_content), !.events = Append(@, "log")]

\* _handle_identity_request.
handle_identity_request(d, message_bytes) ==
    send_midi_message(d, IdentityReplyFrame)

\* _handle_trigger_action that acknowledges without logging.
handle_trigger_action_ack_only(d, action_id, original_message, log_ok) ==
    IF action_id = ACTION_ID_LOG
    THEN send_midi_message(d, original_message)
    ELSE d

\* _handle_trigger_action that does not look at the action id.
handle_trigger_action_any_id(d, action_id, original_message, log_ok) ==
    IF log_ok
    THEN send_midi_message(write_log(d, LogRecord(action_id, original_message)),
                           original_message)
    ELSE d

\* _handle_trigger_action that acknowledges before it writes the record.
handle_trigger_action_echo_first(d, action_id, original_message, log_ok) ==
    IF action_id = ACTION_ID_LOG
    THEN IF log_ok
         THEN write_log(send_midi_message(d, original_message),
                        LogRecord(action_id, original_message))
         ELSE d
    ELSE d

\* _handle_trigger_action.  log_ok: open()/write() of the log file raised no
\* IOError; when it raises, the except clause skips the acknowledgement.
handle_trigger_action(d, action_id, original_message, log_ok) ==
    IF action_id = ACTION_ID_LOG
    THEN IF log_ok
         THEN send_midi_message(write_log(d, LogRecord(action_id, original_message)),
                                original_message)
         ELSE d
    ELSE d

\* _handle_custom_sysex that answers an unknown command with an error frame.
handle_custom_sysex_nack(d, message_bytes, log_ok) ==
    IF Len(message_bytes) < 5 \/ message_bytes[2] # MANUFACTURER_ID
          \/ message_bytes[3] # DEVICE_ID_SYSEX
    THEN d
    ELSE IF message_bytes[4] = COMMAND_TRIGGER_ACTION
         THEN IF Len(message_bytes) >= 6
              THEN handle_trigger_action(d, message_bytes[5], message_bytes, log_ok)
              ELSE d
         ELSE send_midi_message(d, <<SYSEX_START, MANUFACTURER_ID, DEVICE_ID_SYSEX, 127, SYSEX_END>>)

\* _handle_custom_sysex that acknowledges every command it is sent, and takes
\* a five-byte trigger frame for a complete one.
handle_custom_sysex_ack_all(d, message_bytes, log_ok) ==
    IF Len(message_bytes) < 5 \/ message_bytes[2] # MANUFACTURER_ID
          \/ message_bytes[3] # DEVICE_ID_SYSEX
    THEN d
    ELSE IF message_bytes[4] = COMMAND_TRIGGER_ACTION
         THEN handle_trigger_action(d, message_bytes[5], message_bytes, log_ok)
         ELSE [send_midi_message(d, message_bytes) EXCEPT
                  !.log = Append(@, LogRecord(message_bytes[4], message_bytes))]

\* _handle_custom_sysex.
handle_custom_sysex(d, message_bytes, log_ok) ==
    IF Len(message_bytes) < 5 \/ message_bytes[2] # MANUFACTURER_ID
          \/ message_bytes[3] # DEVICE_ID_SYSEX
    THEN d
    ELSE IF message_bytes[4] = COMMAND_TRIGGER_ACTION
         THEN IF Len(message_bytes) >= 6
              THEN handle_trigger_action(d, message_bytes[5], message_bytes, log_ok)
              ELSE d
         ELSE d

\* The test on_midi_message makes before _handle_identity_request
\* (message_bytes[2], the target device id, is not looked at).
IsIdentityRequestShape_all_call_only(m) ==
    /\ Len(m) = 6
    /\ m[1] = SYSEX_START
    /\ m[2] = UNIVERSAL_NON_REALTIME_SYSEX
    /\ m[3] = ALL_CALL
    /\ m[4] = GENERAL_INFORMATION
    /\ m[5] = IDENTITY_REQUEST
    /\ m[6] = SYSEX_END

IsIdentityRequestShape(m) ==
    /\ Len(m) = 6
    /\ m[1] = SYSEX_START
    /\ m[2] = UNIVERSAL_NON_REALTIME_SYSEX
    /\ m[4] = GENERAL_INFORMATION
    /\ m[5] = IDENTITY_REQUEST
    /\ m[6] = SYSEX_END

\* The branch of on_midi_message a message takes.
Branch(m) ==
    IF Len(m) = 0 THEN "empty"
    ELSE IF m[1] = SYSEX_START /\ Last(m) = SYSEX_END
    THEN IF IsIdentityRequestShape(m) THEN "identity_request"
         ELSE IF m[2] = MANUFACTURER_ID /\ m[3] = DEVICE_ID_SYSEX THEN "custom"
         ELSE "unrecognized_sysex"
    ELSE IF m[1] >= 128 /\ m[1] <= 239 THEN "channel"
    ELSE IF m[1] >= 240 THEN "system_common"
    ELSE "unknown"

\* The channel branch formats message_bytes[1] and message_bytes[2] for Note
\* On, Note Off and Control Change: an IndexError when they are not there.
ChannelRaises(m) ==
    /\ HighNibble(m[1]) \in {144, 128, 176}
    /\ Len(m) < 3

\* on_midi_message: the device after the callback has run on message_bytes.
on_midi_message(d, message_bytes, log_ok) ==
    LET b == Branch(message_bytes) IN
    IF b = "identity_request" THEN handle_identity_request(d, message_bytes)
    ELSE IF b = "custom" THEN handle_custom_sysex(d, message_bytes, log_ok)
    ELSE IF b = "channel" /\ ChannelRaises(message_bytes)
    THEN [d EXCEPT !.raised = TRUE]
    ELSE d

\* ---------------------------------------------------- delivered messages
\* Bytes worth telling apart at each position of a SysEx body, after F0:
\* 0x7F is the all-call target and, in a custom envelope, another device's id;
\* 0x01 is this device's id and, in an identity request, a single target.
Pos1 == {126, 125}
Pos2 == {127, 1}
Pos3 == {6, 3, 1, 2}
Pos4 == {1, 255}
Pos5 == {5}

Bodies ==
    {<<a>> : a \in Pos1}
    \cup {<<a, b>> : a \in Pos1, b \in Pos2}
    \cup {<<a, b, c>> : a \in Pos1, b \in Pos2, c \in Pos3}
    \cup {<<a, b, c, e>> : a \in Pos1, b \in Pos2, c \in Pos3, e \in Pos4}
    \cup {<<a, b, c, e, f>> : a \in Pos1, b \in Pos2, c \in Pos3, e \in Pos4, f \in Pos5}

\* SysEx frames: a body between F0 and F7.
Frames == {<<240>> \o body \o <<247>> : body \in Bodies}

\* Six-byte messages that lack the start or the end delimiter.
Undelimited ==
    LET B4 == {body \in Bodies : Len(body) = 4} IN
    {<<0>> \o body \o <<247>> : body \in B4}
    \cup {<<240>> \o body \o <<0>> : body \in B4}

\* Messages of at most two bytes.
ShortMessages ==
    LET B == {0, 1, 125, 144, 240, 247} IN
    {<<>>} \cup {<<a>> : a \in B} \cup {<<a, b>> : a \in B, b \in B}

\* Channel voice/mode messages with zero, one or two data bytes, and system
\* common / realtime status bytes.
ChannelMessages ==
    LET S == {128, 144, 160, 176, 192, 239} IN
    {<<s>> : s \in S} \cup {<<s, 60>> : s \in S} \cup {<<s, 60, 100>> : s \in S}
    \cup {<<241, 0>>, <<248>>, <<255>>}

\* An identity reply, as another device would send it.
ForeignIdentityReply == <<240, 126, 127, 6, 2, 125, 1, 1, 1, 1, 1, 1, 1, 1, 247>>

Messages == Frames \cup Undelimited \cup ShortMessages \cup ChannelMessages \cup {ForeignIdentityReply}

\* ------------------------------------------------------------ device steps
\* last: msg and log_ok are what was delivered, out_open the output port then,
\* s0 and l0 the lengths of sent and log before the callback ran, raised
\* whether an exception left the callback, events what the callback did.
NoDelivery ==
    [msg |-> <<>>, log_ok |-> TRUE, out_open |-> FALSE, s0 |-> 0, l0 |-> 0, raised |-> FALSE,
     events |-> <<>>]

\* _setup_ports for one direction: the virtual port opens, or the first
\* available port opens instead, or the port stays closed.
SetupOutcomes == BOOLEAN

\* Device.__init__: the ports as _setup_ports left them; the log file removed,
\* or left as it was when os.remove raised OSError.
DeviceInit ==
    /\ dev_running = TRUE
    /\ dev_in_open \in SetupOutcomes
    /\ dev_out_open \in SetupOutcomes
    /\ sent = <<>>
    /\ log \in {<<>>, <<StaleRecord>>}
    /\ last = NoDelivery
    /\ n_delivered = 0

\* The transport calls on_midi_message with a message: only while the input
\* port is open (the callback is set in _setup_ports when it is).
Deliver ==
    /\ dev_running
    /\ dev_in_open
    /\ n_delivered < MaxDeliveries
    /\ \E m \in Messages, log_ok \in BOOLEAN :
          LET d0 == [out_open |-> dev_out_open, sent |-> sent, log |-> log, raised |-> FALSE,
                     events |-> <<>>]
              d1 == on_midi_message(d0, m, log_ok)
          IN /\ sent' = d1.sent
             /\ log' = d1.log
             /\ last' = [msg |-> m, log_ok |-> log_ok, out_open |-> dev_out_open,
                         s0 |-> Len(sent), l0 |-> Len(log),
                         raised |-> d1.raised, events |-> d1.events]
    /\ n_delivered' = n_delivered + 1
    /\ UNCHANGED <<dev_running, dev_in_open, dev_out_open>>

\* Device.shutdown: sets the flag, closes and deletes both ports.
DeviceShutdown ==
    /\ dev_running
    /\ dev_running' = FALSE
    /\ dev_in_open' = FALSE
    /\ dev_out_open' = FALSE
    /\ UNCHANGED <<sent, log, last, n_delivered>>

\* ------------------------------------------------------------ client model
\* A port name or a name substring is a sequence of characters.
\* `sub in name` of Python: sub occurs in name as a contiguous run.
Contains(sub, name) ==
    /\ Len(sub) <= Len(name)
    /\ \E k \in 1..(Len(name) - Len(sub) + 1) : SubSeq(name, k, k + Len(sub) - 1) = sub

\* Where an rtmidi port object is open.  idx is the index given to open_port
\* (counted from 0, as enumerate does).
Closed == [kind |-> "closed", idx |-> 0]
Virtual == [kind |-> "virtual", idx |-> 0]
Bound(i) == [kind |-> "port", idx |-> i]

\* is_port_open()
is_port_open(ep) == ep.kind # "closed"

\* The part of the client an operation reads and writes: c.out_ep, c.in_ep,
\* c.callback_set, c.calls, c.faults.
Called(c, call) == [c EXCEPT !.calls = Append(@, call)]

\* The loop of connect_to_device over the output ports, from index i on, that
\* does not stop at the first port it opened.
RECURSIVE ConnectOut_no_break(_, _, _, _, _)
ConnectOut_no_break(c, ports, i, substr, fails) ==
    IF i >= Len(ports) THEN [c |-> c, connected |-> c.out_ep.kind = "port"]
    ELSE IF ~Contains(substr, ports[i + 1])
    THEN ConnectOut_no_break(c, ports, i + 1, substr, fails)
    ELSE LET c1 == Called([c EXCEPT !.out_ep = Closed], <<"out", "close_port">>)
             c2 == Called(c1, <<"out", "open_port", i>>)
         IN IF fails > 0
            THEN ConnectOut_no_break([c2 EXCEPT !.faults = @ + 1], ports, i + 1, substr, fails - 1)
            ELSE ConnectOut_no_break([c2 EXCEPT !.out_ep = Bound(i)], ports, i + 1, substr, fails)

\* The loop of connect_to_device over the output ports, from index i on: at a
\* port whose name contains the substring, close_port then open_port(i), and
\* stop; when open_port raises RtMidiError, go on to the next port.
\* fails: how many of the try blocks entered fail before one succeeds.
RECURSIVE ConnectOut(_, _, _, _, _)
ConnectOut(c, ports, i, substr, fails) ==
    IF i >= Len(ports) THEN [c |-> c, connected |-> FALSE]
    ELSE IF ~Contains(substr, ports[i + 1])
    THEN ConnectOut(c, ports, i + 1, substr, fails)
    ELSE LET c1 == Called([c EXCEPT !.out_ep = Closed], <<"out", "close_port">>)
             c2 == Called(c1, <<"out", "open_port", i>>)
         IN IF fails > 0
            THEN ConnectOut([c2 EXCEPT !.faults = @ + 1], ports, i + 1, substr, fails - 1)
            ELSE [c |-> [c2 EXCEPT !.out_ep = Bound(i)], connected |-> TRUE]

\* The loop over the input ports that registers the callback before it opens
\* the port it found.
RECURSIVE ConnectIn_callback_first(_, _, _, _, _)
ConnectIn_callback_first(c, ports, i, substr, fails) ==
    IF i >= Len(ports) THEN [c |-> c, connected |-> FALSE]
    ELSE IF ~Contains(substr, ports[i + 1])
    THEN ConnectIn_callback_first(c, ports, i + 1, substr, fails)
    ELSE LET c1 == Called([c EXCEPT !.in_ep = Closed], <<"in", "close_port">>)
             c2 == Called([c1 EXCEPT !.callback_set = TRUE], <<"in", "set_callback">>)
             c3 == Called(c2, <<"in", "open_port", i>>)
         IN IF fails > 0
            THEN ConnectIn_callback_first([c3 EXCEPT !.faults = @ + 1], ports, i + 1, substr, fails - 1)
            ELSE [c |-> [c3 EXCEPT !.in_ep = Bound(i)], connected |-> TRUE]

\* The loop over the input ports, from index i on: close_port, open_port(i),
\* set_callback, and stop.
RECURSIVE ConnectIn(_, _, _, _, _)
ConnectIn(c, ports, i, substr, fails) ==
    IF i >= Len(ports) THEN [c |-> c, connected |-> FALSE]
    ELSE IF ~Contains(substr, ports[i + 1])
    THEN ConnectIn(c, ports, i + 1, substr, fails)
    ELSE LET c1 == Called([c EXCEPT !.in_ep = Closed], <<"in", "close_port">>)
             c2 == Called(c1, <<"in", "open_port", i>>)
         IN IF fails > 0
            THEN ConnectIn([c2 EXCEPT !.faults = @ + 1], ports, i + 1, substr, fails - 1)
            ELSE [c |-> Called([c2 EXCEPT !.in_ep = Bound(i), !.callback_set = TRUE],
                               <<"in", "set_callback">>),
                  connected |-> TRUE]

\* _open_client_ports: open_virtual_port on both objects, each caught when it
\* raises (in_ok, out_ok: it did not), then set_callback if the input is open.
open_client_ports(c, in_ok, out_ok) ==
    LET c1 == Called(c, <<"in", "open_virtual_port">>)
        c2 == IF in_ok THEN [c1 EXCEPT !.in_ep = Virtual] ELSE [c1 EXCEPT !.faults = @ + 1]
        c3 == Called(c2, <<"out", "open_virtual_port">>)
        c4 == IF out_ok THEN [c3 EXCEPT !.out_ep = Virtual] ELSE [c3 EXCEPT !.faults = @ + 1]
    IN IF is_port_open(c4.in_ep)
       THEN Called([c4 EXCEPT !.callback_set = TRUE], <<"in", "set_callback">>)
       ELSE c4

\* connect_to_device that goes on to the input leg when the output leg found
\* no port.
connect_to_device_no_early_return(c, oports, iports, in_substr, out_substr, e) ==
    LET o == ConnectOut(Called(c, <<"out", "get_ports">>), oports, 0, in_substr, e.out_fails)
        n == ConnectIn(Called(o.c, <<"in", "get_ports">>), iports, 0, out_substr, e.in_fails)
    IN IF ~n.connected
       THEN [c |-> open_client_ports(n.c, e.in_ok, e.out_ok), ret |-> "false"]
       ELSE [c |-> n.c, ret |-> IF o.connected /\ n.connected THEN "true" ELSE "false"]

\* connect_to_device that returns after a failed input leg without calling
\* _open_client_ports.
connect_to_device_no_fallback(c, oports, iports, in_substr, out_substr, e) ==
    LET o == ConnectOut(Called(c, <<"out", "get_ports">>), oports, 0, in_substr, e.out_fails) IN
    IF ~o.connected THEN [c |-> o.c, ret |-> "false"]
    ELSE LET n == ConnectIn(Called(o.c, <<"in", "get_ports">>), iports, 0, out_substr, e.in_fails) IN
         IF ~n.connected
         THEN [c |-> n.c, ret |-> "false"]
         ELSE [c |-> n.c, ret |-> IF o.connected /\ n.connected THEN "true" ELSE "false"]

\* connect_to_device that returns connected_out alone.
connect_to_device_out_only(c, oports, iports, in_substr, out_substr, e) ==
    LET o == ConnectOut(Called(c, <<"out", "get_ports">>), oports, 0, in_substr, e.out_fails) IN
    IF ~o.connected THEN [c |-> o.c, ret |-> "false"]
    ELSE LET n == ConnectIn(Called(o.c, <<"in", "get_ports">>), iports, 0, out_substr, e.in_fails) IN
         IF ~n.connected
         THEN [c |-> open_client_ports(n.c, e.in_ok, e.out_ok), ret |-> "true"]
         ELSE [c |-> n.c, ret |-> IF o.connected THEN "true" ELSE "false"]

\* connect_to_device: the client after the call, and what it returned.
\* e.out_fails, e.in_fails: the failing try blocks of the two loops; e.in_ok,
\* e.out_ok: the outcomes of the fallback's open_virtual_port calls.
connect_to_device(c, oports, iports, in_substr, out_substr, e) ==
    LET o == ConnectOut(Called(c, <<"out", "get_ports">>), oports, 0, in_substr, e.out_fails) IN
    IF ~o.connected THEN [c |-> o.c, ret |-> "false"]
    ELSE LET n == ConnectIn(Called(o.c, <<"in", "get_ports">>), iports, 0, out_substr, e.in_fails) IN
         IF ~n.connected
         THEN [c |-> open_client_ports(n.c, e.in_ok, e.out_ok), ret |-> "false"]
         ELSE [c |-> n.c, ret |-> IF o.connected /\ n.connected THEN "true" ELSE "false"]

\* ------------------------------------------------------ transport's ports
\* Names the transport advertises: a device's input and output port as the
\* transport decorates them, and an unrelated port.
OutPortNames == {<<"x", "D", "i">>, <<"y">>}
InPortNames == {<<"x", "D", "o">>, <<"y">>}

\* Substrings a caller asks for: the device's port name, and one no port has.
InSubstrings == {<<"D", "i">>, <<"z">>}
OutSubstrings == {<<"D", "o">>, <<"z">>}

SeqsUpTo(S, n) == UNION {[1..k -> S] : k \in 0..n}

\* The positions of the ports a try block of connect_to_device is entered for.
Matching(ports, substr) == {k \in 1..Len(ports) : Contains(substr, ports[k])}

\* What the transport can do to one call of connect_to_device: in each loop
\* open_port raises in some try blocks before one succeeds or the ports run
\* out (close_port, which only releases the port, is taken not to raise).  Outcomes
\* the call does not get to (the input leg after a failed output leg, the
\* fallback after a successful input leg) are left at their defaults.
ConnectEnvs(oports, iports, in_substr, out_substr) ==
    LET mo == Cardinality(Matching(oports, in_substr))
        mi == Cardinality(Matching(iports, out_substr))
    IN {e \in [out_fails : 0..mo, in_fails : 0..mi, in_ok : BOOLEAN, out_ok : BOOLEAN] :
          /\ e.out_fails = mo => e.in_fails = 0
          /\ (e.out_fails = mo \/ e.in_fails < mi) => (e.in_ok /\ e.out_ok)}

\* ------------------------------------------------------------ client steps
\* Client.__init__: _open_client_ports on fresh port objects.
ClientInit ==
    /\ cli_alive = TRUE
    /\ out_ports \in SeqsUpTo(OutPortNames, MaxOutPorts)
    /\ in_ports \in SeqsUpTo(InPortNames, MaxInPorts)
    /\ \E in_ok \in BOOLEAN, out_ok \in BOOLEAN :
          LET c0 == [out_ep |-> Closed, in_ep |-> Closed, callback_set |-> FALSE,
                     calls |-> <<>>, faults |-> 0]
              c1 == open_client_ports(c0, in_ok, out_ok)
          IN /\ out_ep = c1.out_ep
             /\ in_ep = c1.in_ep
             /\ callback_set = c1.callback_set
             /\ calls = c1.calls
             /\ faults = c1.faults
    /\ target_in = <<>>
    /\ target_out = <<>>
    /\ last_op = "init"
    /\ ret = "none"

\* A call of connect_to_device.
Connect ==
    /\ cli_alive
    /\ \E in_substr \in InSubstrings, out_substr \in OutSubstrings :
       \E e \in ConnectEnvs(out_ports, in_ports, in_substr, out_substr) :
       \E r \in {connect_to_device(
                    [out_ep |-> out_ep, in_ep |-> in_ep, callback_set |-> callback_set,
                     calls |-> <<>>, faults |-> 0],
                    out_ports, in_ports, in_substr, out_substr, e)} :
          /\ target_in' = in_substr
          /\ target_out' = out_substr
          /\ out_ep' = r.c.out_ep
          /\ in_ep' = r.c.in_ep
          /\ callback_set' = r.c.callback_set
          /\ calls' = r.c.calls
          /\ faults' = r.c.faults
          /\ ret' = r.ret
    /\ last_op' = "connect"
    /\ UNCHANGED <<cli_alive, out_ports, in_ports>>

\* Client.shutdown: close_port on each object whose port is open, then del.
ClientShutdown ==
    /\ cli_alive
    /\ cli_alive' = FALSE
    /\ calls' = (IF is_port_open(in_ep) THEN << <<"in", "close_port">> >> ELSE <<>>)
                \o (IF is_port_open(out_ep) THEN << <<"out", "close_port">> >> ELSE <<>>)
    /\ in_ep' = Closed
    /\ out_ep' = Closed
    /\ last_op' = "shutdown"
    /\ faults' = 0
    /\ ret' = "none"
    /\ UNCHANGED <<out_ports, in_ports, callback_set, target_in, target_out>>

\* ------------------------------------------------------------ client inbox
\* Time is counted in half polling intervals, so that a timeout can end
\* between two polls: time.sleep(0.01) lasts PollInterval units.  The
\* statements between two sleeps are taken to use no time.
\* PollInterval_none: a sleep that returns at once.
PollInterval_none == 1 - 1
PollInterval == 2
MaxTimeout == 3
MaxArrivals == 3

\* What the transport delivers to the client: the device's echo of
\* TriggerAction(log), and a Control Change, which is no SysEx frame.
InboxMessages == {<<240, 125, 1, 3, 1, 247>>, <<176, 7, 127>>}

\* list(message_bytes) that loses the last byte.
list_truncated(message_bytes) == [k \in 1..(Len(message_bytes) - 1) |-> message_bytes[k]]

\* list(message_bytes): a new list of the same bytes in the same order.
list(message_bytes) == [k \in 1..Len(message_bytes) |-> message_bytes[k]]

\* pop() without an index, which takes the last element.
pop_0_last(l) == [item |-> l[Len(l)], rest |-> SubSeq(l, 1, Len(l) - 1)]

\* A read of element 0 that leaves it in the list.
pop_0_keep(l) == [item |-> Head(l), rest |-> l]

\* list.pop(0) on a list that is not empty: the element returned and the list
\* after it.
pop_0(l) == [item |-> Head(l), rest |-> Tail(l)]

\* A clear that keeps the newest message.
fresh_list_keep_newest(l) == IF l = <<>> THEN <<>> ELSE <<l[Len(l)]>>

\* What self._received_messages names after clear_received_messages: a new
\* empty list, whatever l, the list it named before, holds.
fresh_list(l) == <<>>

\* The loop test of pop_received_message: (time.time() - start_time) < timeout_sec.
time_left(e, t) == e < t

\* The messages whose append has completed: those delivered, less the one the
\* callback is still holding.
Pushed == IF p_pc = "loaded" THEN SubSeq(arrived, 1, Len(arrived) - 1) ELSE arrived

NoReturn == [kind |-> "none yet", item |-> <<>>]
ReturnedNone == [kind |-> "None", item |-> <<>>]
Returned(item) == [kind |-> "item", item |-> item]
RaisedIndexError == [kind |-> "IndexError", item |-> <<>>]

Left(how, l) == [k \in 1..Len(l) |-> [how |-> how, item |-> l[k]]]

\* The transport calls _on_midi_message on its own thread; the callback reads
\* self._received_messages (the list object it will append to).
Receive ==
    /\ cli_alive /\ callback_set /\ is_port_open(in_ep)
    /\ p_pc = "idle"
    /\ Len(arrived) < MaxArrivals
    /\ \E message_bytes \in InboxMessages : arrived' = Append(arrived, message_bytes)
    /\ p_pc' = "loaded"
    /\ p_stale' = FALSE
    /\ UNCHANGED <<inbox, c_pc, timeout_sec, elapsed, pop_ret, box_op, gone, mark, seen_frame>>

\* ... and appends list(message_bytes) to the list it read.  When
\* clear_received_messages has replaced that list meanwhile, the append goes
\* to the old list, which nothing names any more.
ReceiveAppend ==
    /\ p_pc = "loaded"
    /\ LET item == list(arrived[Len(arrived)]) IN
       IF p_stale
       THEN /\ gone' = Append(gone, [how |-> "stale", item |-> item])
            /\ UNCHANGED <<inbox, seen_frame>>
       ELSE /\ inbox' = Append(inbox, item)
            /\ seen_frame' = (seen_frame \/ (/\ c_pc \in {"test", "check", "take"}
                                               /\ elapsed < timeout_sec)
                                          \/ (/\ c_pc = "sleep"
                                               /\ elapsed + PollInterval <= timeout_sec))
            /\ UNCHANGED gone
    /\ p_pc' = "idle"
    /\ p_stale' = FALSE
    /\ UNCHANGED <<arrived, c_pc, timeout_sec, elapsed, pop_ret, box_op, mark>>

\* pop_received_message(timeout_sec) is called: start_time = time.time().
PopCall ==
    /\ cli_alive
    /\ c_pc = "idle"
    /\ timeout_sec' \in 0..MaxTimeout
    /\ elapsed' = 0
    /\ c_pc' = "test"
    /\ pop_ret' = NoReturn
    /\ box_op' = "pop"
    /\ seen_frame' = (inbox # <<>>)
    /\ UNCHANGED <<inbox, arrived, p_pc, p_stale, gone, mark>>

\* while (time.time() - start_time) < timeout_sec: ... else return None.
PopTest ==
    /\ c_pc = "test"
    /\ IF time_left(elapsed, timeout_sec)
       THEN /\ c_pc' = "check"
            /\ UNCHANGED <<pop_ret, timeout_sec, elapsed>>
       ELSE /\ c_pc' = "idle"
            /\ pop_ret' = ReturnedNone
            /\ timeout_sec' = 0
            /\ elapsed' = 0
    /\ UNCHANGED <<inbox, arrived, p_pc, p_stale, box_op, gone, mark, seen_frame>>

\* if self._received_messages:
PopCheck ==
    /\ c_pc = "check"
    /\ c_pc' = IF inbox # <<>> THEN "take" ELSE "sleep"
    /\ UNCHANGED <<inbox, arrived, p_pc, p_stale, timeout_sec, elapsed, pop_ret, box_op, gone,
                   mark, seen_frame>>

\* return self._received_messages.pop(0); IndexError on an empty list.
PopTake ==
    /\ c_pc = "take"
    /\ c_pc' = "idle"
    /\ IF inbox = <<>>
       THEN /\ pop_ret' = RaisedIndexError
            /\ UNCHANGED <<inbox, gone>>
       ELSE LET r == pop_0(inbox) IN
            /\ pop_ret' = Returned(r.item)
            /\ inbox' = r.rest
            /\ gone' = Append(gone, [how |-> "pop", item |-> r.item])
    /\ timeout_sec' = 0
    /\ elapsed' = 0
    /\ UNCHANGED <<arrived, p_pc, p_stale, box_op, mark, seen_frame>>

\* time.sleep(0.01)
PopSleep ==
    /\ c_pc = "sleep"
    /\ elapsed' = elapsed + PollInterval
    /\ c_pc' = "test"
    /\ UNCHANGED <<inbox, arrived, p_pc, p_stale, timeout_sec, pop_ret, box_op, gone, mark,
                   seen_frame>>

\* The caller's thread runs on inside pop_received_message.
PopStep == PopTest \/ PopCheck \/ PopTake \/ PopSleep

\* clear_received_messages: self._received_messages = [].  The caller is not
\* inside pop_received_message; the callback may be between its read of the
\* list and its append.
Clear ==
    /\ cli_alive
    /\ c_pc = "idle"
    /\ inbox' = fresh_list(inbox)
    /\ gone' = gone \o Left("clear", inbox)
    /\ mark' = Len(Pushed)
    /\ p_stale' = (p_pc = "loaded")
    /\ box_op' = "clear"
    /\ UNCHANGED <<arrived, p_pc, c_pc, timeout_sec, elapsed, pop_ret, seen_frame>>

\* The inbox of a client just constructed, and while the inbox is not modelled.
InboxIdle ==
    /\ inbox = <<>>
    /\ arrived = <<>>
    /\ p_pc = "idle"
    /\ p_stale = FALSE
    /\ c_pc = "idle"
    /\ timeout_sec = 0
    /\ elapsed = 0
    /\ pop_ret = NoReturn
    /\ box_op = "none"
    /\ gone = <<>>
    /\ mark = 0
    /\ seen_frame = FALSE

\* ------------------------------------------------- client send operations
\* Argument bytes a caller passes to the send operations.
ArgBytes == {1, 2}
MaxSends == 1

\* The constants of client/client.py; those the device's module also defines
\* carry a CLIENT_ prefix here.
CLIENT_SYSEX_START == 240
CLIENT_SYSEX_END == 247
CLIENT_UNIVERSAL_NON_REALTIME_SYSEX == 126
CLIENT_GENERAL_INFORMATION == 6
IDENTITY_REQUEST_MSG_ID == 1
CLIENT_MANUFACTURER_ID == 125
DEVICE_ID_CLIENT_TARGETS == 1
COMMAND_SET_PARAMETER == 1
COMMAND_GET_PARAMETER == 2
CLIENT_COMMAND_TRIGGER_ACTION == 3
\* 0x7F, the target device id of send_identity_request
CLIENT_ALL_CALL == 127

\* message of send_identity_request.
identity_request_message ==
    <<CLIENT_SYSEX_START, CLIENT_UNIVERSAL_NON_REALTIME_SYSEX, CLIENT_ALL_CALL,
      CLIENT_GENERAL_INFORMATION, IDENTITY_REQUEST_MSG_ID, CLIENT_SYSEX_END>>

\* message of send_set_parameter with the value before the parameter id.
set_parameter_message_swapped(parameter_id, parameter_value) ==
    <<CLIENT_SYSEX_START, CLIENT_MANUFACTURER_ID, DEVICE_ID_CLIENT_TARGETS,
      COMMAND_SET_PARAMETER,
      parameter_value, parameter_id, CLIENT_SYSEX_END>>

\* message of send_set_parameter.
set_parameter_message(parameter_id, parameter_value) ==
    <<CLIENT_SYSEX_START, CLIENT_MANUFACTURER_ID, DEVICE_ID_CLIENT_TARGETS,
      COMMAND_SET_PARAMETER,
      parameter_id, parameter_value, CLIENT_SYSEX_END>>

\* message of send_get_parameter.
get_parameter_message(parameter_id) ==
    <<CLIENT_SYSEX_START, CLIENT_MANUFACTURER_ID, DEVICE_ID_CLIENT_TARGETS,
      COMMAND_GET_PARAMETER,
      parameter_id, CLIENT_SYSEX_END>>

\* message of send_trigger_action.
trigger_action_message(action_id) ==
    <<CLIENT_SYSEX_START, CLIENT_MANUFACTURER_ID, DEVICE_ID_CLIENT_TARGETS,
      CLIENT_COMMAND_TRIGGER_ACTION,
      action_id, CLIENT_SYSEX_END>>

\* What a send operation is called with, and the message it builds.
SendOps ==
    {[op |-> "send_identity_request", args |-> <<>>, message |-> identity_request_message]}
    \cup {[op |-> "send_set_parameter", args |-> <<p, v>>,
            message |-> set_parameter_message(p, v)] : p \in ArgBytes, v \in ArgBytes}
    \cup {[op |-> "send_get_parameter", args |-> <<p>>, message |-> get_parameter_message(p)]
             : p \in ArgBytes}
    \cup {[op |-> "send_trigger_action", args |-> <<a>>, message |-> trigger_action_message(a)]
             : a \in ArgBytes}

\* Client.send_midi_message on c = [out_ep, calls, sent, raised]: with the
\* output port open, midi_out.send_message(message_list), which is in no try
\* block (send_ok: it did not raise); otherwise only a print.
client_send_midi_message(c, message_list, send_ok) ==
    IF is_port_open(c.out_ep)
    THEN LET c1 == Called(c, <<"out", "send_message", message_list>>)
         IN IF send_ok THEN [c1 EXCEPT !.sent = Append(@, message_list)]
                       ELSE [c1 EXCEPT !.raised = TRUE]
    ELSE c

\* A call of one of the four send operations.  The transport carries what
\* midi_out.send_message took to the port midi_out is open on: to the device
\* when that is the device's input port.
ClientSend ==
    /\ cli_alive
    /\ c_pc = "idle"
    /\ Len(cli_sent) < MaxSends
    /\ \E o \in SendOps, send_ok \in BOOLEAN :
         LET c == client_send_midi_message(
                      [out_ep |-> out_ep, calls |-> <<>>, sent |-> cli_sent, raised |-> FALSE],
                      o.message, send_ok)
         IN /\ last_op' = o.op
            /\ op_args' = o.args
            /\ calls' = c.calls
            /\ cli_sent' = c.sent
            /\ ret' = IF c.raised THEN "raised" ELSE "none"
            /\ faults' = 0
            /\ wire_in' = IF out_ep.kind = "port"
                           THEN wire_in \o SubSeq(c.sent, Len(cli_sent) + 1, Len(c.sent))
                           ELSE wire_in
    /\ UNCHANGED <<cli_alive, out_ports, in_ports, out_ep, in_ep, callback_set, target_in,
                   target_out, wire_out>>

\* The transport calls the device's on_midi_message with the next message on
\* its way to the device, and carries what the callback sent towards the
\* client.
LinkDeliver ==
    /\ dev_running
    /\ dev_in_open
    /\ wire_in # <<>>
    /\ \E log_ok \in BOOLEAN :
          LET m == Head(wire_in)
              d0 == [out_open |-> dev_out_open, sent |-> sent, log |-> log, raised |-> FALSE,
                     events |-> <<>>]
              d1 == on_midi_message(d0, m, log_ok)
          IN /\ sent' = d1.sent
             /\ log' = d1.log
             /\ last' = [msg |-> m, log_ok |-> log_ok, out_open |-> dev_out_open,
                         s0 |-> Len(sent), l0 |-> Len(log),
                         raised |-> d1.raised, events |-> d1.events]
             /\ wire_out' = wire_out \o SubSeq(d1.sent, Len(sent) + 1, Len(d1.sent))
    /\ wire_in' = Tail(wire_in)
    /\ n_delivered' = n_delivered + 1
    /\ UNCHANGED <<dev_running, dev_in_open, dev_out_open, cli_sent, op_args>>

\* The transport calls the client's _on_midi_message with the next message
\* on its way from the device; the callback reads self._received_messages.
LinkReceive ==
    /\ cli_alive /\ callback_set /\ in_ep.kind = "port"
    /\ p_pc = "idle"
    /\ wire_out # <<>>
    /\ arrived' = Append(arrived, Head(wire_out))
    /\ wire_out' = Tail(wire_out)
    /\ p_pc' = "loaded"
    /\ p_stale' = FALSE
    /\ UNCHANGED <<inbox, c_pc, timeout_sec, elapsed, pop_ret, box_op, gone, mark, seen_frame,
                   cli_sent, op_args, wire_in>>

\* No send operation called, nothing on its way.
LinkIdle ==
    /\ cli_sent = <<>>
    /\ op_args = <<>>
    /\ wire_in = <<>>
    /\ wire_out = <<>>

\* ------------------------------------------------ run loop and shutdown
MaxShutdowns == 2

\* Messages a callback in progress is handling: an identity request and a
\* TriggerAction with action id 1, which are answered, and a GetParameter,
\* which is not.
RunMessages ==
    {<<240, 126, 127, 6, 1, 247>>, <<240, 125, 1, 3, 1, 247>>, <<240, 125, 1, 2, 1, 247>>}

\* A loop test that does not look at the flag.
loop_continues_always(shutdown_flag) == TRUE

\* The loop test of Device.run: while not self.shutdown_flag.
loop_continues(shutdown_flag) == ~shutdown_flag

\* A shutdown that closes the port whenever it is called.
shutdown_port_always(has, open, n) == [open |-> FALSE, n |-> n + 1]

\* One port's part of shutdown, device's or client's: if the attribute is
\* there and the port is open, close_port(); then del.  open: the port is
\* open afterwards; n: the close_port calls so far.
shutdown_port(has, open, n) ==
    IF has /\ open THEN [open |-> FALSE, n |-> n + 1] ELSE [open |-> open, n |-> n]

\* Device.shutdown on the device's state.
DoDeviceShutdown ==
    LET i == shutdown_port(dev_has_ports, dev_in_open, closes.dev_in)
        o == shutdown_port(dev_has_ports, dev_out_open, closes.dev_out)
    IN /\ dev_running' = FALSE
       /\ dev_in_open' = i.open
       /\ dev_out_open' = o.open
       /\ dev_has_ports' = FALSE
       /\ closes' = [closes EXCEPT !.dev_in = i.n, !.dev_out = o.n]
       /\ n_calls' = [n_calls EXCEPT !.dev = @ + 1]

\* while not self.shutdown_flag:
RunTest ==
    /\ run_pc = "loop"
    /\ run_pc' = IF loop_continues(~dev_running) THEN "sleep" ELSE "finally"
    /\ UNCHANGED <<dev_vars, interrupted, dev_has_ports, h_pc, h_msg, dev_err, closes, n_calls>>

\* time.sleep(0.01)
RunSleep ==
    /\ run_pc = "sleep"
    /\ run_pc' = "loop"
    /\ UNCHANGED <<dev_vars, interrupted, dev_has_ports, h_pc, h_msg, dev_err, closes, n_calls>>

\* KeyboardInterrupt inside the try block of run.
Interrupt ==
    /\ run_pc \in {"loop", "sleep"}
    /\ run_pc' = "finally"
    /\ interrupted' = TRUE
    /\ UNCHANGED <<dev_vars, dev_has_ports, h_pc, h_msg, dev_err, closes, n_calls>>

\* finally: self.shutdown(), and run returns.
RunFinally ==
    /\ run_pc = "finally"
    /\ DoDeviceShutdown
    /\ run_pc' = "done"
    /\ UNCHANGED <<sent, log, last, n_delivered, interrupted, h_pc, h_msg, dev_err>>

\* The thread that runs the loop, scheduled.
RunStep == RunTest \/ RunSleep \/ RunFinally

\* Another thread sets device.shutdown_flag = True.
SetFlag ==
    /\ dev_running
    /\ dev_running' = FALSE
    /\ UNCHANGED <<dev_in_open, dev_out_open, sent, log, last, n_delivered, run_vars>>

\* Another caller calls device.shutdown().
DeviceShutdownCall ==
    /\ n_calls.dev < MaxShutdowns
    /\ DoDeviceShutdown
    /\ UNCHANGED <<sent, log, last, n_delivered, run_pc, interrupted, h_pc, h_msg, dev_err>>

\* The transport's thread calls on_midi_message while the input port is open.
CallbackStart ==
    /\ dev_has_ports /\ dev_in_open
    /\ h_pc = "idle"
    /\ n_delivered < MaxDeliveries
    /\ h_msg' \in RunMessages
    /\ h_pc' = "handling"
    /\ dev_err' = "none"
    /\ UNCHANGED <<dev_vars, run_pc, interrupted, dev_has_ports, closes, n_calls>>

\* The callback runs its handler to the end.  A handler that gets as far as
\* send_midi_message reads self.midi_out: AttributeError when shutdown has
\* deleted it meanwhile.
CallbackFinish ==
    /\ h_pc = "handling"
    /\ h_pc' = "idle"
    /\ \E log_ok \in BOOLEAN :
          LET d0 == [out_open |-> dev_out_open, sent |-> sent, log |-> log, raised |-> FALSE,
                     events |-> <<>>]
              reach == on_midi_message([d0 EXCEPT !.out_open = TRUE], h_msg, log_ok)
              d1 == on_midi_message(d0, h_msg, log_ok)
              fails == ~dev_has_ports /\ reach.sent # sent
          IN /\ sent' = d1.sent
             /\ log' = d1.log
             /\ dev_err' = IF fails THEN "AttributeError" ELSE "none"
             /\ last' = [msg |-> h_msg, log_ok |-> log_ok, out_open |-> dev_out_open,
                         s0 |-> Len(sent), l0 |-> Len(log),
                         raised |-> fails, events |-> d1.events]
    /\ n_delivered' = n_delivered + 1
    /\ UNCHANGED <<dev_running, dev_in_open, dev_out_open, run_pc, interrupted, dev_has_ports,
                   h_msg, closes, n_calls>>

\* Client.shutdown, called any number of times: each port's part runs when
\* the attribute is still there (hasattr), which it is until the first call.
ClientShutdownCall ==
    /\ n_calls.cli < MaxShutdowns
    /\ LET i == shutdown_port(cli_alive, is_port_open(in_ep), closes.cli_in)
           o == shutdown_port(cli_alive, is_port_open(out_ep), closes.cli_out)
       IN /\ in_ep' = IF i.open THEN in_ep ELSE Closed
          /\ out_ep' = IF o.open THEN out_ep ELSE Closed
          /\ calls' = (IF i.n > closes.cli_in THEN << <<"in", "close_port">> >> ELSE <<>>)
                       \o (IF o.n > closes.cli_out THEN << <<"out", "close_port">> >> ELSE <<>>)
          /\ closes' = [closes EXCEPT !.cli_in = i.n, !.cli_out = o.n]
    /\ cli_alive' = FALSE
    /\ n_calls' = [n_calls EXCEPT !.cli = @ + 1]
    /\ last_op' = "shutdown"
    /\ faults' = 0
    /\ ret' = "none"
    /\ UNCHANGED <<out_ports, in_ports, callback_set, target_in, target_out, run_pc, interrupted,
                   dev_has_ports, h_pc, h_msg, dev_err>>

\* run called on a device just constructed; no callback in progress.
RunIdle ==
    /\ run_pc = "loop"
    /\ interrupted = FALSE
    /\ dev_has_ports = TRUE
    /\ h_pc = "idle"
    /\ h_msg = <<>>
    /\ dev_err = "none"
    /\ closes = [dev_in |-> 0, dev_out |-> 0, cli_in |-> 0, cli_out |-> 0]
    /\ n_calls = [dev |-> 0, cli |-> 0]

\* ------------------------------------------------- the program not running
\* The client's variables while only the device runs.
ClientAbsent ==
    /\ cli_alive = FALSE
    /\ out_ports = <<>>
    /\ in_ports = <<>>
    /\ out_ep = Closed
    /\ in_ep = Closed
    /\ callback_set = FALSE
    /\ target_in = <<>>
    /\ target_out = <<>>
    /\ last_op = "init"
    /\ calls = <<>>
    /\ faults = 0
    /\ ret = "none"

\* The device's variables while only the client runs.
DeviceAbsent ==
    /\ dev_running = FALSE
    /\ dev_in_open = FALSE
    /\ dev_out_open = FALSE
    /\ sent = <<>>
    /\ log = <<>>
    /\ last = NoDelivery
    /\ n_delivered = 0

\* ----------------------------------------------------------- specification
\* The device program.
Init == DeviceInit /\ ClientAbsent /\ InboxIdle /\ LinkIdle /\ RunIdle

Next ==
    \/ Deliver /\ UNCHANGED <<cli_vars, box_vars, link_vars, run_vars>>
    \/ DeviceShutdown /\ UNCHANGED <<cli_vars, box_vars, link_vars, run_vars>>

Spec == Init /\ [][Next]_vars

\* The client program.
ClientStart == ClientInit /\ DeviceAbsent /\ InboxIdle /\ LinkIdle /\ RunIdle

ClientNext ==
    \/ Connect /\ UNCHANGED <<dev_vars, box_vars, link_vars, run_vars>>
    \/ ClientShutdown /\ UNCHANGED <<dev_vars, box_vars, link_vars, run_vars>>

ClientSpec == ClientStart /\ [][ClientNext]_vars

\* The client's inbox: a client just constructed, no device port to connect
\* to, the transport's callback thread and the caller's thread interleaved.
InboxStart ==
    /\ ClientInit
    /\ out_ports = <<>>
    /\ in_ports = <<>>
    /\ DeviceAbsent
    /\ InboxIdle
    /\ LinkIdle
    /\ RunIdle

InboxNext ==
    \/ Receive /\ UNCHANGED <<dev_vars, cli_vars, link_vars, run_vars>>
    \/ ReceiveAppend /\ UNCHANGED <<dev_vars, cli_vars, link_vars, run_vars>>
    \/ PopCall /\ UNCHANGED <<dev_vars, cli_vars, link_vars, run_vars>>
    \/ PopTest /\ UNCHANGED <<dev_vars, cli_vars, link_vars, run_vars>>
    \/ PopCheck /\ UNCHANGED <<dev_vars, cli_vars, link_vars, run_vars>>
    \/ PopTake /\ UNCHANGED <<dev_vars, cli_vars, link_vars, run_vars>>
    \/ PopSleep /\ UNCHANGED <<dev_vars, cli_vars, link_vars, run_vars>>
    \/ Clear /\ UNCHANGED <<dev_vars, cli_vars, link_vars, run_vars>>

InboxSpec == InboxStart /\ [][InboxNext]_vars

\* The same with the caller's thread scheduled: a step of
\* pop_received_message that can be taken is taken in the end (time.sleep
\* returns, the interpreter runs the thread).
InboxLive == InboxSpec /\ WF_vars(PopStep /\ UNCHANGED <<dev_vars, cli_vars, link_vars, run_vars>>)

\* The two programs together: a device whose ports are open, a client whose
\* connect_to_device to it returned True (and whose inbox is empty), the
\* client's send operations, the transport carrying messages both ways, and
\* the caller popping and clearing the inbox.
LinkStart ==
    /\ DeviceInit
    /\ dev_in_open /\ dev_out_open
    /\ cli_alive = TRUE
    /\ out_ports = << <<"x", "D", "i">> >>
    /\ in_ports = << <<"x", "D", "o">> >>
    /\ LET c0 == [out_ep |-> Closed, in_ep |-> Closed, callback_set |-> FALSE,
                  calls |-> <<>>, faults |-> 0]
           c1 == open_client_ports(c0, TRUE, TRUE)
           r == connect_to_device([c1 EXCEPT !.calls = <<>>], out_ports, in_ports,
                                  <<"D", "i">>, <<"D", "o">>,
                                  [out_fails |-> 0, in_fails |-> 0, in_ok |-> TRUE,
                                   out_ok |-> TRUE])
       IN /\ out_ep = r.c.out_ep
          /\ in_ep = r.c.in_ep
          /\ callback_set = r.c.callback_set
          /\ calls = r.c.calls
          /\ faults = r.c.faults
          /\ ret = r.ret
    /\ target_in = <<"D", "i">>
    /\ target_out = <<"D", "o">>
    /\ last_op = "connect"
    /\ InboxIdle
    /\ LinkIdle
    /\ RunIdle

LinkNext ==
    \/ ClientSend /\ UNCHANGED <<dev_vars, box_vars, run_vars>>
    \/ LinkDeliver /\ UNCHANGED <<cli_vars, box_vars, run_vars>>
    \/ LinkReceive /\ UNCHANGED <<dev_vars, cli_vars, run_vars>>
    \/ ReceiveAppend /\ UNCHANGED <<dev_vars, cli_vars, link_vars, run_vars>>
    \/ PopCall /\ UNCHANGED <<dev_vars, cli_vars, link_vars, run_vars>>
    \/ PopTest /\ UNCHANGED <<dev_vars, cli_vars, link_vars, run_vars>>
    \/ PopCheck /\ UNCHANGED <<dev_vars, cli_vars, link_vars, run_vars>>
    \/ PopTake /\ UNCHANGED <<dev_vars, cli_vars, link_vars, run_vars>>
    \/ PopSleep /\ UNCHANGED <<dev_vars, cli_vars, link_vars, run_vars>>
    \/ Clear /\ UNCHANGED <<dev_vars, cli_vars, link_vars, run_vars>>

LinkSpec == LinkStart /\ [][LinkNext]_vars

\* Shutting down: a device just constructed whose run is called, a thread
\* that sets the flag or calls shutdown, the transport's thread delivering
\* meanwhile; and a client just constructed whose shutdown is called.
RunStart ==
    /\ DeviceInit
    /\ ClientInit
    /\ out_ports = <<>>
    /\ in_ports = <<>>
    /\ InboxIdle
    /\ LinkIdle
    /\ RunIdle

RunNext ==
    \/ RunTest /\ UNCHANGED <<cli_vars, box_vars, link_vars>>
    \/ RunSleep /\ UNCHANGED <<cli_vars, box_vars, link_vars>>
    \/ Interrupt /\ UNCHANGED <<cli_vars, box_vars, link_vars>>
    \/ RunFinally /\ UNCHANGED <<cli_vars, box_vars, link_vars>>
    \/ SetFlag /\ UNCHANGED <<cli_vars, box_vars, link_vars>>
    \/ DeviceShutdownCall /\ UNCHANGED <<cli_vars, box_vars, link_vars>>
    \/ CallbackStart /\ UNCHANGED <<cli_vars, box_vars, link_vars>>
    \/ CallbackFinish /\ UNCHANGED <<cli_vars, box_vars, link_vars>>
    \/ ClientShutdownCall /\ UNCHANGED <<dev_vars, box_vars, link_vars>>

RunSpec == RunStart /\ [][RunNext]_vars

\* The same with the thread that runs the loop scheduled: time.sleep returns
\* and the loop test is made again.
RunLive == RunSpec /\ WF_vars(RunStep /\ UNCHANGED <<cli_vars, box_vars, link_vars>>)

\* ===================================================================
\* Properties of the device.  The wire bytes are written out as the protocol
\* gives them: F0 = 240, F7 = 247, 7E = 126, 7D = 125, 7F = 127.
\* ===================================================================

\* What the latest delivery sent and appended to the log.
Replies == SubSeq(sent, last.s0 + 1, Len(sent))
Logged == SubSeq(log, last.l0 + 1, Len(log))
Delivered == n_delivered > 0

WireIdentityRequest == <<240, 126, 127, 6, 1, 247>>
WireIdentityReply == <<240, 126, 127, 6, 2, 125, 1, 1, 1, 1, 1, 1, 1, 1, 247>>

\* F0 ... F7
Delimited(m) == Len(m) >= 2 /\ m[1] = 240 /\ m[Len(m)] = 247

\* F0 7D 01 03 <action_id> ... F7
WireTriggerAction(m) ==
    Delimited(m) /\ Len(m) >= 6 /\ m[2] = 125 /\ m[3] = 1 /\ m[4] = 3

\* F0 7E <t> 06 01 F7
WireIdentityRequestAnyTarget(m) ==
    Delimited(m) /\ Len(m) = 6 /\ m[2] = 126 /\ m[4] = 6 /\ m[5] = 1

\* C1: with the output port open, a delivery of F0 7E 7F 06 01 F7 sends
\* exactly one message, the fixed 15-byte identity reply, whatever was
\* delivered and sent before.
C1_IdentityReply ==
    (Delivered /\ last.out_open /\ last.msg = WireIdentityRequest)
        => (Replies = <<WireIdentityReply>> /\ Logged = <<>> /\ ~last.raised)

\* C1 witness: the request repeated, the earlier delivery answered too.
C1_Witness ==
    /\ n_delivered = 2
    /\ last.msg = WireIdentityRequest
    /\ last.out_open
    /\ last.s0 = 1
    /\ sent = <<WireIdentityReply, WireIdentityReply>>

\* C2: with the output port open and the log writable, a delivery of a
\* TriggerAction frame with action id 1 appends exactly one record
\* "TriggerAction: ID=1, FullMsg=<the frame>" and sends exactly one message,
\* the frame itself.
C2_TriggerLogAndEcho ==
    (Delivered /\ last.out_open /\ last.log_ok
        /\ WireTriggerAction(last.msg) /\ last.msg[5] = 1)
        => /\ Replies = <<last.msg>>
           /\ Logged = << <<"TriggerAction: ID=", 1, ", FullMsg=", last.msg, "\n">> >>

\* C2 witness: a trigger frame with a payload byte after the action id,
\* logged and echoed after an earlier delivery.
C2_Witness ==
    /\ n_delivered = 2
    /\ last.msg = <<240, 125, 1, 3, 1, 5, 247>>
    /\ last.out_open /\ last.log_ok
    /\ Len(sent) = last.s0 + 1
    /\ Len(log) = last.l0 + 1

\* A delimited frame the device neither answers as an identity request nor
\* takes as a custom command addressed to it.
UnrecognizedFrame(m) ==
    /\ Delimited(m)
    /\ ~WireIdentityRequestAnyTarget(m)
    /\ ~(Len(m) >= 3 /\ m[2] = 125 /\ m[3] = 1)

\* A message whose status byte is not F0.
NonSysEx(m) == Len(m) >= 1 /\ m[1] # 240

C4_UnknownActionSilent ==
    (Delivered /\ WireTriggerAction(last.msg) /\ last.msg[5] # 1)
        => (Replies = <<>> /\ Logged = <<>>)

\* C4 witness: F0 7D 01 03 FF F7 delivered with the port open and the log
\* writable.
C4_Witness ==
    /\ Delivered
    /\ last.msg = <<240, 125, 1, 3, 255, 247>>
    /\ last.out_open /\ last.log_ok

\* C5: a frame F0 7D <device_id> ... F7 whose device id is not 1 is answered
\* with nothing and logs nothing, whatever its command id and payload.
C5_OtherDeviceSilent ==
    (Delivered /\ Delimited(last.msg) /\ Len(last.msg) >= 3
        /\ last.msg[2] = 125 /\ last.msg[3] # 1)
        => (Replies = <<>> /\ Logged = <<>>)

\* C5 witness: the logging TriggerAction addressed to device 7F.
C5_Witness ==
    /\ Delivered
    /\ last.msg = <<240, 125, 127, 3, 1, 247>>
    /\ last.out_open /\ last.log_ok

\* C6: a frame F0 7D 01 <command_id> ... F7 whose command id is not 3, or the
\* five-byte F0 7D 01 03 F7, is dropped: nothing sent, nothing logged, no
\* exception.
C6_UnhandledCommandDropped ==
    (Delivered /\ Delimited(last.msg) /\ Len(last.msg) >= 5
        /\ last.msg[2] = 125 /\ last.msg[3] = 1
        /\ (last.msg[4] # 3 \/ Len(last.msg) = 5))
        => (Replies = <<>> /\ Logged = <<>> /\ ~last.raised)

\* C6 witness: the client's SetParameter frame, then its GetParameter frame
\* or the short trigger frame, all dropped.
C6_Witness ==
    /\ n_delivered = 2
    /\ last.msg \in {<<240, 125, 1, 2, 1, 247>>, <<240, 125, 1, 3, 247>>}
    /\ last.out_open /\ last.log_ok
    /\ sent = <<>>

\* C7 as stated: a six-byte F0 7E <t> 06 01 F7 whose target t is not 7F gets
\* no reply.
C7_AllCallOnly ==
    (Delivered /\ WireIdentityRequestAnyTarget(last.msg) /\ last.msg[3] # 127)
        => Replies = <<>>

\* C7 amended: with the output port open the device sends the identity reply
\* exactly when the delivered frame is a six-byte F0 7E <t> 06 01 F7, for any
\* target byte t.
C7_AnyTarget ==
    (Delivered /\ last.out_open)
        => (Replies = <<WireIdentityReply>> <=> WireIdentityRequestAnyTarget(last.msg))

\* C7 witness: a request targeted at device 01, answered.
C7_Witness ==
    /\ Delivered
    /\ last.msg = <<240, 126, 1, 6, 1, 247>>
    /\ Replies = <<WireIdentityReply>>

\* C8: no delivery, whatever the bytes, lets an exception out of
\* on_midi_message.
C8_NeverRaises == Delivered => ~last.raised

\* ===================================================================
\* Properties of the client's handshake (under ClientSpec).
\* ===================================================================

\* The index, counted from 0, of the first port whose name contains substr.
FirstMatch(ports, substr) ==
    (CHOOSE k \in Matching(ports, substr) : \A j \in Matching(ports, substr) : k <= j) - 1

\* C9: when no transport call fails and each enumeration has a port whose
\* name contains its substring, connect_to_device returns True with the output
\* open on the first matching output port and the input on the first matching
\* input port, each after exactly one close_port, and the callback set again.
C9_ConnectSuccess ==
    (/\ last_op = "connect"
     /\ faults = 0
     /\ Matching(out_ports, target_in) # {}
     /\ Matching(in_ports, target_out) # {})
        => LET i == FirstMatch(out_ports, target_in)
               j == FirstMatch(in_ports, target_out)
           IN /\ ret = "true"
              /\ out_ep = [kind |-> "port", idx |-> i]
              /\ in_ep = [kind |-> "port", idx |-> j]
              /\ callback_set
              /\ calls = << <<"out", "get_ports">>, <<"out", "close_port">>, <<"out", "open_port", i>>,
                            <<"in", "get_ports">>, <<"in", "close_port">>, <<"in", "open_port", j>>,
                            <<"in", "set_callback">> >>

\* C9 witness: output ports [other, device in, device in], input ports
\* [device out, other]: output bound to index 1, input to index 0.
C9_Witness ==
    /\ last_op = "connect"
    /\ faults = 0
    /\ out_ports = << <<"y">>, <<"x", "D", "i">>, <<"x", "D", "i">> >>
    /\ in_ports = << <<"x", "D", "o">>, <<"y">> >>
    /\ target_in = <<"D", "i">>
    /\ target_out = <<"D", "o">>
    /\ out_ep = [kind |-> "port", idx |-> 1]
    /\ in_ep = [kind |-> "port", idx |-> 0]
    /\ ret = "true"

\* C10: a call of connect_to_device for which no output port name contains
\* the substring returns False having only enumerated the output ports: no
\* port is closed or opened, the callback is not set, and both endpoints and
\* the callback registration are what they were before the call.
C10_NoOutputMatch ==
    [][(last_op' = "connect" /\ Matching(out_ports, target_in') = {})
          => /\ ret' = "false"
             /\ calls' = << <<"out", "get_ports">> >>
             /\ out_ep' = out_ep
             /\ in_ep' = in_ep
             /\ callback_set' = callback_set]_vars

\* C10 witness: a failed call on a client whose virtual ports are open, where
\* output ports were enumerated and the input leg would have found its port.
C10_Witness ==
    /\ last_op = "connect"
    /\ out_ports # <<>>
    /\ Matching(out_ports, target_in) = {}
    /\ Matching(in_ports, target_out) # {}
    /\ ret = "false"
    /\ out_ep = [kind |-> "virtual", idx |-> 0]
    /\ in_ep = [kind |-> "virtual", idx |-> 0]
    /\ callback_set

\* The output leg of the latest connect_to_device opened its port: the call
\* went on to enumerate the input ports.
OutLegBound == \E k \in 1..Len(calls) : calls[k] = <<"in", "get_ports">>

\* The input leg of the latest connect_to_device opened its port: the call
\* ended with open_port(j), set_callback on the input.
InLegBound ==
    /\ Len(calls) >= 2
    /\ calls[Len(calls)] = <<"in", "set_callback">>
    /\ \E j \in 0..(Len(in_ports) - 1) : calls[Len(calls) - 1] = <<"in", "open_port", j>>

\* The calls of the latest operation after it enumerated the input ports.
AfterInEnumeration ==
    LET k == CHOOSE k \in 1..Len(calls) : calls[k] = <<"in", "get_ports">>
    IN SubSeq(calls, k + 1, Len(calls))

\* C11: a call of connect_to_device whose output leg opened its port and for
\* which no input port name contains the substring returns False, and before
\* it returns calls open_virtual_port for the client's own input and output
\* port, in that order, and then set_callback exactly when the input port is
\* open.
C11_InboundFallback ==
    (/\ last_op = "connect"
     /\ OutLegBound
     /\ Matching(in_ports, target_out) = {})
        => /\ ret = "false"
           /\ AfterInEnumeration =
                 << <<"in", "open_virtual_port">>, <<"out", "open_virtual_port">> >>
                 \o (IF is_port_open(in_ep) THEN << <<"in", "set_callback">> >> ELSE <<>>)
           /\ is_port_open(in_ep) => callback_set

\* C11 witness: input ports enumerated, none of them the device's, after the
\* output was opened on the device's port; the fallback set the callback.
C11_Witness ==
    /\ last_op = "connect"
    /\ OutLegBound
    /\ in_ports # <<>>
    /\ Matching(in_ports, target_out) = {}
    /\ ret = "false"
    /\ calls[Len(calls)] = <<"in", "set_callback">>

\* An endpoint is open on a port, of the enumeration ports, whose name
\* contains substr.
BoundTo(ep, ports, substr) ==
    /\ ep.kind = "port"
    /\ ep.idx < Len(ports)
    /\ Contains(substr, ports[ep.idx + 1])

\* C12: connect_to_device returns True exactly when both legs opened their
\* port, and False otherwise; when it returned True the output is open on a
\* port whose name contains target_device_in_port_name and the input on a port
\* whose name contains target_device_out_port_name.
C12_TrueIffBothLegs ==
    last_op = "connect"
        => /\ ret \in {"true", "false"}
           /\ ret = "true" <=> (OutLegBound /\ InLegBound)
           /\ ret = "true" => /\ BoundTo(out_ep, out_ports, target_in)
                              /\ BoundTo(in_ep, in_ports, target_out)

\* C12 witness: False returned by a call whose output leg opened its port and
\* whose input leg found a port and failed to open it.
C12_Witness ==
    /\ last_op = "connect"
    /\ ret = "false"
    /\ OutLegBound
    /\ Matching(in_ports, target_out) # {}
    /\ faults > 0

\* C13: after connect_to_device returned False neither endpoint is open on
\* a device port.
C13_NoPartialBinding ==
    (last_op = "connect" /\ ret = "false")
        => (out_ep.kind # "port" /\ in_ep.kind # "port")

\* C14: in a call of connect_to_device whose input leg opened its port, the
\* input's calls end close_port, open_port(j), set_callback in that order;
\* whenever the call returned True the callback is registered on the input,
\* which is open on port j, so the transport delivers arrivals to
\* _on_midi_message.
C14_CallbackAfterOpen ==
    (last_op = "connect" /\ ret = "true")
        => /\ Len(calls) >= 3
           /\ callback_set
           /\ in_ep.kind = "port"
           /\ SubSeq(calls, Len(calls) - 2, Len(calls))
                 = << <<"in", "close_port">>, <<"in", "open_port", in_ep.idx>>,
                      <<"in", "set_callback">> >>

\* C14 witness: True returned with the input open on the second input port,
\* the first having failed to open.
C14_Witness ==
    /\ last_op = "connect"
    /\ ret = "true"
    /\ in_ep = [kind |-> "port", idx |-> 1]
    /\ faults > 0
    /\ callback_set

\* ===================================================================
\* Properties of the client's inbox (under InboxSpec and InboxLive).
\* ===================================================================

\* The messages that left the inbox, in the order they left.
GoneItems == [k \in 1..Len(gone) |-> gone[k].item]

\* C15: while nothing has left the inbox other than by a pop, the k-th
\* message a pop returned is the k-th message the callback was given, byte
\* for byte: pops return the pushed messages in push order.
C15_FIFO ==
    (\A k \in 1..Len(gone) : gone[k].how = "pop")
        => /\ Len(gone) <= Len(arrived)
           /\ \A k \in 1..Len(gone) : gone[k].item = arrived[k]
           /\ pop_ret.kind = "item"
                 => (Len(gone) > 0 /\ pop_ret.item = arrived[Len(gone)])

\* C15 witness: two different messages pushed and both popped, a third
\* pushed after the first pop.
C15_Witness ==
    /\ Len(gone) = 2
    /\ gone[1].how = "pop" /\ gone[2].how = "pop"
    /\ arrived[1] # arrived[2]
    /\ Len(inbox) = 1
    /\ pop_ret.kind = "item"

\* C16: however the callback's steps and the steps of pop_received_message
\* interleave, the messages that left the inbox followed by those in it are
\* the messages appended, each once and in order (nothing lost, nothing
\* twice), pop(0) is never reached on an empty list and no pop raised.
C16_ExactlyOnce ==
    /\ GoneItems \o inbox = Pushed
    /\ c_pc = "take" => inbox # <<>>
    /\ pop_ret.kind # "IndexError"

\* C16 witness: the caller between its test of the list and pop(0) while the
\* callback is between its read of the list and append, after an earlier pop.
C16_Witness ==
    /\ c_pc = "take"
    /\ p_pc = "loaded"
    /\ ~p_stale
    /\ Len(gone) = 1 /\ gone[1].how = "pop"
    /\ Len(inbox) = 1

\* C17: every call of pop_received_message returns; and it returns None only
\* once the timeout has elapsed and less than one polling interval after it.
C17_PopTerminates ==
    /\ (c_pc # "idle") ~> (c_pc = "idle")
    /\ [][(c_pc # "idle" /\ c_pc' = "idle" /\ pop_ret'.kind = "None")
             => (elapsed >= timeout_sec /\ elapsed < timeout_sec + PollInterval)]_vars

\* C17 witness: a pop with the longest timeout on an inbox that stayed empty,
\* back at the loop test after the sleep that passed the timeout.
C17_Witness ==
    /\ c_pc = "test"
    /\ timeout_sec = MaxTimeout
    /\ elapsed > timeout_sec
    /\ inbox = <<>>
    /\ arrived = <<>>

\* C18: a pop that had a message to return (the inbox was not empty when it
\* was called, or a message was appended before its timeout elapsed) returned
\* a message, not None, whatever its timeout.
C18_NoneOnlyWhenEmpty ==
    (c_pc = "idle" /\ box_op = "pop" /\ seen_frame) => pop_ret.kind = "item"

\* C19: the appends completed before the latest clear_received_messages have
\* all left the inbox, so no later pop returns one of them; no message
\* appended after that clear was discarded by it (an append made to the list
\* the clear replaced began before the clear); and while nothing was delivered
\* since, the inbox is empty and a pop returns None.
C19_ClearAtomic ==
    /\ Len(gone) >= mark
    /\ \A k \in (mark + 1)..Len(gone) : gone[k].how # "clear"
    /\ Len(Pushed) = mark => inbox = <<>>
    /\ (box_op = "pop" /\ c_pc = "idle" /\ Len(arrived) = mark) => pop_ret = ReturnedNone

\* C19 witness: two messages appended, cleared, and the pop after the clear
\* returned None.
C19_Witness ==
    /\ mark = 2
    /\ Len(arrived) = 2
    /\ gone[1].how = "clear" /\ gone[2].how = "clear"
    /\ box_op = "pop"
    /\ c_pc = "idle"
    /\ pop_ret = ReturnedNone

\* C20 as stated: every entry of the inbox has at least two bytes, begins
\* with F0 and ends with F7.
C20_OnlyFrames == \A k \in 1..Len(inbox) : Delimited(inbox[k])

\* C20: every entry of the inbox is a message the callback was given, byte
\* for byte and in delivery order, whether or not it is a SysEx frame.
C20_Verbatim ==
    /\ Len(gone) + Len(inbox) <= Len(arrived)
    /\ \A k \in 1..Len(inbox) : inbox[k] = arrived[Len(gone) + k]

\* C20 witness: a Control Change in the inbox behind a SysEx frame.
C20_Witness ==
    /\ Len(inbox) = 2
    /\ inbox[1] = <<240, 125, 1, 3, 1, 247>>
    /\ inbox[2] = <<176, 7, 127>>

\* ===================================================================
\* Properties of the device's handlers, continued (under Spec).
\* ===================================================================

\* C23: in a delivery of TriggerAction with action id 1 the record and the
\* acknowledgement do not depend on each other: with the output port open the
\* frame is sent back whether or not the log could be written, and with the
\* log writable the record is appended whether or not the frame could be sent.
C23_IndependentSteps ==
    (Delivered /\ WireTriggerAction(last.msg) /\ last.msg[5] = 1)
        => /\ last.out_open => Replies = <<last.msg>>
           /\ last.log_ok
                 => Logged = << <<"TriggerAction: ID=", 1, ", FullMsg=", last.msg, "\n">> >>

\* C27: a delivery is handled to the end inside the callback: what it sends
\* and what it logs is appended after everything earlier deliveries sent
\* and logged, so replies leave in the order of their requests; and a
\* TriggerAction with action id 1 writes its record before it sends the
\* acknowledgement.
C27_SynchronousDispatch ==
    /\ []((Delivered /\ last.out_open /\ last.log_ok
            /\ WireTriggerAction(last.msg) /\ last.msg[5] = 1)
              => last.events = <<"log", "send">>)
    /\ [][n_delivered' = n_delivered + 1
             => /\ last'.s0 = Len(sent) /\ last'.l0 = Len(log)
                /\ Len(sent') >= Len(sent) /\ SubSeq(sent', 1, Len(sent)) = sent
                /\ Len(log') >= Len(log) /\ SubSeq(log', 1, Len(log)) = log
                /\ Len(last'.events) = (Len(sent') - Len(sent)) + (Len(log') - Len(log))]_vars

\* C27 witness: an identity request answered, then a TriggerAction logged and
\* acknowledged: the reply before the echo, the record before the echo.
C27_Witness ==
    /\ n_delivered = 2
    /\ sent = <<WireIdentityReply, <<240, 125, 1, 3, 1, 247>> >>
    /\ last.events = <<"log", "send">>

\* ===================================================================
\* Properties of the client's handshake, continued (under ClientSpec).
\* ===================================================================

\* C24: a client with both ports open and the callback set still has both
\* ports open and the callback set after a call of connect_to_device that
\* returned False.
C24_StillUsable ==
    [][(/\ last_op' = "connect" /\ ret' = "false"
        /\ is_port_open(out_ep) /\ is_port_open(in_ep) /\ callback_set)
          => (is_port_open(out_ep') /\ is_port_open(in_ep') /\ callback_set')]_vars

\* The indices open_port was called with on the port object side ("out" or
\* "in") in the latest operation.
OpenPortIndices(side) ==
    {calls[k][3] : k \in {n \in 1..Len(calls) : Len(calls[n]) = 3 /\ calls[n][1] = side}}

\* The index of the first port whose name contains substr, when there is one.
FirstMatchOf(ports, substr) ==
    IF Matching(ports, substr) = {} THEN {} ELSE {FirstMatch(ports, substr)}

\* C25: in every call of connect_to_device open_port is only called with
\* the index of the first port whose name contains the substring, on either
\* port object, whether or not it raises.
C25_FirstMatchOnly ==
    last_op = "connect"
        => /\ OpenPortIndices("out") \subseteq FirstMatchOf(out_ports, target_in)
           /\ OpenPortIndices("in") \subseteq FirstMatchOf(in_ports, target_out)

\* ===================================================================
\* Properties of the two programs together (under LinkSpec).
\* ===================================================================

\* The bytes the wire layout gives for a send operation and its arguments.
WireLayout(op, args) ==
    IF op = "send_identity_request" THEN <<240, 126, 127, 6, 1, 247>>
    ELSE IF op = "send_set_parameter" THEN <<240, 125, 1, 1, args[1], args[2], 247>>
    ELSE IF op = "send_get_parameter" THEN <<240, 125, 1, 2, args[1], 247>>
    ELSE <<240, 125, 1, 3, args[1], 247>>

SendOpNames ==
    {"send_identity_request", "send_set_parameter", "send_get_parameter",
     "send_trigger_action"}

\* C21: with the output port open, a send operation calls
\* midi_out.send_message exactly once, with F0 7E 7F 06 01 F7 for
\* send_identity_request, F0 7D 01 01 p v F7 for send_set_parameter(p, v),
\* F0 7D 01 02 p F7 for send_get_parameter(p) and F0 7D 01 03 a F7 for
\* send_trigger_action(a); the message begins with F0 and ends with F7.
C21_SendLayout ==
    (last_op \in SendOpNames /\ is_port_open(out_ep))
        => /\ calls = << <<"out", "send_message", WireLayout(last_op, op_args)>> >>
           /\ Delimited(calls[1][3])

\* C21 witness: send_set_parameter(1, 2) handed F0 7D 01 01 01 02 F7 to the
\* transport, which took it.
C21_Witness ==
    /\ last_op = "send_set_parameter"
    /\ op_args = <<1, 2>>
    /\ cli_sent = << <<240, 125, 1, 1, 1, 2, 247>> >>

\* C22: no client operation and no delivery to the device lets an exception
\* out when a transport call fails.
C22_NeverPropagates == ret # "raised" /\ ~last.raised

\* What the device's replies to the messages of a sequence are, in order: the
\* frame itself for TriggerAction with action id 1, the identity reply for
\* the identity request, nothing for anything else.
RECURSIVE ExpectedReplies(_)
ExpectedReplies(ms) ==
    IF ms = <<>> THEN <<>>
    ELSE (IF Head(ms) = <<240, 125, 1, 3, 1, 247>> THEN <<Head(ms)>>
          ELSE IF Head(ms) = <<240, 126, 127, 6, 1, 247>> THEN <<WireIdentityReply>>
          ELSE <<>>)
         \o ExpectedReplies(Tail(ms))

\* Nothing is on its way and no callback is running.
Settled == wire_in = <<>> /\ wire_out = <<>> /\ p_pc = "idle"

\* C26: once everything the connected client sent has been delivered and
\* answered, the client's callback has been given exactly the echo of each
\* send_trigger_action(1) and the identity reply for each
\* send_identity_request, and nothing for any other send; a pop returns
\* nothing but those replies, and None when there was none to come.
C26_EndToEnd ==
    /\ Settled => arrived = ExpectedReplies(cli_sent)
    /\ (c_pc = "idle" /\ box_op = "pop")
          => /\ pop_ret.kind = "item"
                   => \E k \in 1..Len(ExpectedReplies(cli_sent)) :
                         pop_ret.item = ExpectedReplies(cli_sent)[k]
             /\ ExpectedReplies(cli_sent) = <<>> => pop_ret = ReturnedNone

\* The run loop is still going round.
InLoop == run_pc \in {"loop", "sleep"}

\* C28: Device.run terminates once shutdown_flag is set, the thread that runs
\* the polling loop being scheduled; it does not leave the loop while the flag
\* is false and no interrupt arrives; and when run has terminated, shutdown
\* has been executed and both ports are closed.
C28_RunTerminates ==
    /\ (~dev_running) ~> (run_pc = "done")
    /\ [][InLoop /\ ~InLoop' => ~dev_running \/ interrupted']_vars
    /\ [](run_pc = "done" =>
            /\ n_calls.dev >= 1
            /\ ~dev_running
            /\ ~dev_in_open /\ ~dev_out_open)

\* run has returned because the flag was set, and shutdown closed both ports.
C28_Witness ==
    /\ run_pc = "done"
    /\ ~interrupted
    /\ closes.dev_in = 1 /\ closes.dev_out = 1

\* C29: shutdown is idempotent, for the client and for the device: each port
\* is closed at most once however often shutdown is called, and a second or
\* later call changes nothing and raises no error.
C29_ShutdownIdempotent ==
    /\ [](/\ closes.dev_in <= 1 /\ closes.dev_out <= 1
          /\ closes.cli_in <= 1 /\ closes.cli_out <= 1)
    /\ [][n_calls.dev >= 1 /\ n_calls.dev' > n_calls.dev =>
            UNCHANGED <<dev_running, dev_in_open, dev_out_open, dev_has_ports, closes,
                        sent, log, dev_err>>]_vars
    /\ [][n_calls.cli >= 1 /\ n_calls.cli' > n_calls.cli =>
            /\ UNCHANGED <<cli_alive, in_ep, out_ep, callback_set, closes>>
            /\ calls' = <<>>
            /\ ret' # "raised"]_vars

\* Both programs were shut down twice after each had closed two open ports.
C29_Witness ==
    /\ n_calls.dev >= 2 /\ n_calls.cli >= 2
    /\ closes = [dev_in |-> 1, dev_out |-> 1, cli_in |-> 1, cli_out |-> 1]

\* C30: shutdown interleaved with a delivery callback never makes the
\* dispatch fail: no exception leaves a callback whose handler started before
\* shutdown deleted the ports, and nothing is sent once shutdown has completed.
C30_DispatchSurvivesShutdown ==
    /\ [](dev_err = "none")
    /\ [][~dev_has_ports => sent' = sent]_vars

====
